---- MODULE Spec2Model ----
(***************************************************************************)
(* Model of the kairos Build controller (controllers/build_controller.go). *)
(* The state is the object store (Build records and their Jobs), the       *)
(* wall clock, and a log of what every Reconcile invocation did.           *)
(* Reconcile is one atomic action per invocation: invocations of one       *)
(* request are serialized by the controller runtime, and a concurrent      *)
(* modification shows up as a failing store operation (an input).          *)
(***************************************************************************)
EXTENDS Naturals, Sequences, FiniteSets, TLC

\* ---- bounds ----
MaxTime == 2
MaxFailed == 1
MaxRemovals == 1

\* ---- program constants (api/v1alpha1/build_types.go) ----
BuildPhasePending == "Pending"
BuildPhaseRunning == "Running"
BuildPhaseSucceeded == "Succeeded"
BuildPhaseFailed == "Failed"
\* zero value of Status.Phase of a freshly submitted Build
NoPhase == ""
\* nil *metav1.Time
NoTime == 0

\* request names the controller may be asked to reconcile
Builds == {"a", "b"}

VARIABLES builds, jobs, now, jobsCreated, callbackLog, deletedBy, removals,
          everPhase, last, builder, undisturbed

vars ==
  <<builds, jobs, now, jobsCreated, callbackLog, deletedBy, removals, everPhase,
    last, builder, undisturbed>>

\* ---- helpers of the model ----
\* the terminal phases, as the properties name them
Terminal == {BuildPhaseSucceeded, BuildPhaseFailed}

\* a job name that leaves out the name of the request
JobNameShared(b) == "build-"

\* jobName := fmt.Sprintf("build-%s", build.Name)
JobName(b) == "build-" \o b

\* a Build as submitted: empty status, callback configured or not
NewBuild(cb) ==
  [callback |-> cb, phase |-> NoPhase, jobRef |-> "", callbackStatus |-> "",
   completionTime |-> NoTime]

\* the Job that constructJob returns: owned by the build, empty status
constructJob(b) ==
  [name |-> JobName(b), owner |-> b, succeeded |-> 0, failed |-> 0,
   completionTime |-> NoTime]

\* ---- the Job Builder (constructJob, lines 132-252) ----
\* values of the string fields of a BuildSpec; "" is an omitted field
Revisions == {"", "master", "dev"}
Dockerfiles == {"", "Dockerfile", "docker/Dockerfile.ci"}
PushSecrets == {"", "regcred"}
ContextUrls == {"https://git.example/app.git", "https://git.example/lib.git"}
OutputImages == {"registry.example/app:1", "registry.example/lib:2"}

BuildSpecs ==
  [contextUrl : ContextUrls, revision : Revisions, dockerfile : Dockerfiles,
   outputImage : OutputImages, pushSecret : PushSecrets]

\* revision := build.Spec.Revision; if revision == "" { revision = "master" }
ResolveRevision(spec) == IF spec.revision = "" THEN "master" ELSE spec.revision

\* dockerfile := build.Spec.Dockerfile; if dockerfile == "" { ... "Dockerfile" }
ResolveDockerfile(spec) ==
  IF spec.dockerfile = "" THEN "Dockerfile" ELSE spec.dockerfile

\* the pod template of the Job: the command of the init container (fetch
\* stage), the two commands of the build script (build stage), the volumes
\* and the mounts of the build container
JobTemplate(spec) ==
  LET dockerfile == ResolveDockerfile(spec)
      auth == spec.pushSecret # ""
  IN
  [fetch |-> <<"git", "clone", spec.contextUrl, "/workspace">>,
   bud |-> <<"buildah", "bud", "--storage-driver=vfs", "-f", dockerfile, "-t",
             spec.outputImage, ".">>,
   push |-> <<"buildah", "push", "--storage-driver=vfs", spec.outputImage>>,
   privileged |-> TRUE,
   volumes |-> {"workspace", "containers-storage"}
                 \cup (IF auth THEN {"registry-auth"} ELSE {}),
   mounts |-> {<<"workspace", "/workspace">>,
               <<"containers-storage", "/var/lib/containers">>}
                \cup (IF auth
                      THEN {<<"registry-auth", "/root/.docker/config.json">>}
                      ELSE {}),
   secretName |-> spec.pushSecret]

\* mutant: the test of the phase forgets Failed
IsFinishedOnlySucceeded(p) == p = BuildPhaseSucceeded

\* mutant: the test of the phase forgets Succeeded
IsFinishedOnlyFailed(p) == p = BuildPhaseFailed

\* build.Status.Phase == Succeeded || build.Status.Phase == Failed
IsFinished(p) == p = BuildPhaseSucceeded \/ p = BuildPhaseFailed

\* mutant: a job in progress sets the phase to Running
NewPhaseRunningByDefault(j, p) ==
  IF j.succeeded > 0 THEN BuildPhaseSucceeded
  ELSE IF j.failed > 0 THEN BuildPhaseFailed
  ELSE BuildPhaseRunning

\* the phase computed from the job's counters
NewPhase(j, p) ==
  IF j.succeeded > 0 THEN BuildPhaseSucceeded
  ELSE IF j.failed > 0 THEN BuildPhaseFailed
  ELSE p

\* the completion time computed from the job's status and the clock
NewCompletionTime(j, t) ==
  IF j.succeeded > 0 THEN j.completionTime
  ELSE IF j.failed > 0 THEN t
  ELSE NoTime

\* ---- inputs of one invocation ----
\* 0 stands for a transport error or timeout of client.Do
NetErr == 0
Responses == {NetErr, 199, 200, 299, 300}

\* mutant: the lower bound of the status check is missing
sendCallbackNoLowerBound(resp) ==
  IF resp = NetErr THEN "err"
  ELSE IF resp >= 300 THEN "err"
  ELSE "nil"

\* sendCallback returns nil exactly for a response with a 2xx status
sendCallback(resp) ==
  IF resp = NetErr THEN "err"
  ELSE IF resp < 200 \/ resp >= 300 THEN "err"
  ELSE "nil"

\* the store operation that fails in the invocation, if it is reached
\* the step that fails in the invocation, if it is reached: a store call that
\* returns an error, or the process stopping between the update that persists
\* the terminal phase and the callback ("crash")
FailPoints ==
  {"none", "getBuild", "getJob", "construct", "create", "updateRunning",
   "updateTerminal", "crash", "delete"}

\* an invocation that fails before the callback never reads the response or
\* the outcome of the best-effort update, so these are left at one value then
Inputs ==
  {in \in [fail : FailPoints, resp : Responses, persistFails : BOOLEAN] :
     in.fail \notin {"none", "delete"} => (in.resp = NetErr /\ ~in.persistFails)}

\* ---- the object store ----
Restrict(f, S) == [x \in S |-> f[x]]

\* r.Status().Update(ctx, &build): the stored status becomes the in-memory one
StatusUpdate(bs, b, st) == [bs EXCEPT ![b] = st]

\* r.Create(ctx, job)
CreateJob(js, j) == [n \in DOMAIN js \cup {j.name} |-> IF n = j.name THEN j ELSE js[n]]

\* deleting a Build removes the Jobs it owns (OwnerReference cascade)
OwnedJobs(js, b) == {n \in DOMAIN js : js[n].owner = b}
DeleteBuild(bs, b) == Restrict(bs, DOMAIN bs \ {b})
CascadeJobs(js, b) == Restrict(js, DOMAIN js \ OwnedJobs(js, b))

\* ---- the decisions of Reconcile ----
\* mutant: the comparison with the stored phase is missing
PhaseChangedAlways(newPhase, phase) == TRUE

\* if newPhase != build.Status.Phase
PhaseChanged(newPhase, phase) == newPhase # phase

\* newPhase is terminal and build.Spec.Callback != nil
ShouldCallback(build, newPhase) == IsFinished(newPhase) /\ build.callback

\* mutant: the cleanup does not look at the phase
ShouldDeleteAnyPhase(newPhase, cbErr) == cbErr = "nil"

\* mutant: the cleanup compares with the wrong phase
ShouldDeleteOnFailed(newPhase, cbErr) ==
  cbErr = "nil" /\ newPhase = BuildPhaseFailed

\* the callback returned nil and newPhase == Succeeded
ShouldDelete(newPhase, cbErr) == cbErr = "nil" /\ newPhase = BuildPhaseSucceeded

\* mutant: the error of constructJob or r.Create is logged and not returned
CreateErrReturnsIgnored(err) == FALSE

\* if err != nil { return ctrl.Result{}, err } after constructJob and r.Create
CreateErrReturns(err) == err

\* mutant: the error of the update of the phase is not returned
PhaseUpdateErrReturnsIgnored(err) == FALSE

\* if err := r.Status().Update(ctx, &build); err != nil { return ... err }
PhaseUpdateErrReturns(err) == err

\* mutant: the error of the update of callbackStatus is returned
PersistErrReturnsError(err) == err

\* r.Status().Update(ctx, &build) whose error is dropped (best effort)
PersistErrReturns(err) == FALSE

\* CallbackStatus written after the dispatch
CallbackStatusOf(cbErr) == IF cbErr = "nil" THEN "Success" ELSE "Failed"

\* what an invocation did, kept per request for the properties: the path it
\* took, the object it read, the in-memory status at return, its side effects
\* and its result
Call(path, build) ==
  [ran |-> TRUE, path |-> path, callback |-> build.callback,
   phaseBefore |-> build.phase, phase |-> build.phase,
   callbackStatus |-> build.callbackStatus, created |-> 0, writes |-> 0,
   phaseWritten |-> FALSE, cbPersisted |-> FALSE, cb |-> "none",
   cbPhase |-> NoPhase, resp |-> NetErr, del |-> "none",
   result |-> "nil"]

NoCall == [Call("none", NewBuild(FALSE)) EXCEPT !.ran = FALSE]

Outcome(bs, js, call) == [builds |-> bs, jobs |-> js, call |-> call]

\* lines 53-77: no Job found
RunNoJob(b, in) ==
  LET build == builds[b]
      call == Call("noJob", build)
  IN
  IF IsFinished(build.phase) THEN Outcome(builds, jobs, call)
  ELSE
    LET createErr == in.fail = "construct" \/ in.fail = "create"
        js == IF createErr THEN jobs ELSE CreateJob(jobs, constructJob(b))
        made == [call EXCEPT !.created = IF createErr THEN 0 ELSE 1]
        st == [build EXCEPT !.phase = BuildPhaseRunning, !.jobRef = JobName(b)]
        set == [made EXCEPT !.phase = st.phase]
    IN
    IF CreateErrReturns(createErr)
    THEN Outcome(builds, js, [made EXCEPT !.result = "err"])
    ELSE IF in.fail = "updateRunning"
    THEN Outcome(builds, js, [set EXCEPT !.result = "err"])
    ELSE Outcome(StatusUpdate(builds, b, st), js,
           [set EXCEPT !.writes = 1, !.result = "requeue"])

\* lines 103-126: callback and cleanup; bs1 is the store after the update of
\* the phase
RunCallback(b, in, st, call, bs1) ==
  LET cbErr == sendCallback(in.resp)
      st2 == [st EXCEPT !.callbackStatus = CallbackStatusOf(cbErr)]
      persistErr == in.persistFails
      bs2 == IF persistErr THEN bs1 ELSE StatusUpdate(bs1, b, st2)
      sent == [call EXCEPT !.cb = IF cbErr = "nil" THEN "ok" ELSE "fail",
                           !.cbPhase = st.phase, !.resp = in.resp,
                           !.callbackStatus = st2.callbackStatus,
                           !.cbPersisted = ~persistErr,
                           !.writes = @ + IF persistErr THEN 0 ELSE 1]
  IN
  IF PersistErrReturns(persistErr)
  THEN Outcome(bs2, jobs, [sent EXCEPT !.result = "err"])
  ELSE IF ShouldDelete(st.phase, cbErr)
  THEN IF in.fail = "delete"
       THEN Outcome(bs2, jobs, [sent EXCEPT !.del = "fail", !.result = "err"])
       ELSE Outcome(DeleteBuild(bs2, b), CascadeJobs(jobs, b),
                    [sent EXCEPT !.del = "ok"])
  ELSE Outcome(bs2, jobs, sent)

\* lines 82-129: a Job was found
RunJob(b, in) ==
  LET build == builds[b]
      job == jobs[JobName(b)]
      newPhase == NewPhase(job, build.phase)
      completionTime == NewCompletionTime(job, now)
      call == Call("job", build)
      st == [build EXCEPT !.phase = newPhase, !.completionTime = completionTime]
      updErr == in.fail = "updateTerminal"
      bs1 == IF updErr THEN builds ELSE StatusUpdate(builds, b, st)
      moved == [call EXCEPT !.phase = newPhase, !.phaseWritten = ~updErr,
                            !.writes = IF updErr THEN 0 ELSE 1]
  IN
  IF ~PhaseChanged(newPhase, build.phase) THEN Outcome(builds, jobs, call)
  ELSE IF PhaseUpdateErrReturns(updErr)
    THEN Outcome(bs1, jobs, [moved EXCEPT !.result = "err"])
  ELSE IF ShouldCallback(build, newPhase)
    THEN IF in.fail = "crash"
         THEN Outcome(bs1, jobs, [moved EXCEPT !.result = "crash"])
         ELSE RunCallback(b, in, st, moved, bs1)
  ELSE Outcome(bs1, jobs, moved)

\* lines 38-130: one invocation for request b
Run(b, in) ==
  IF in.fail = "getBuild"
    THEN Outcome(builds, jobs,
                 [Call("getBuildErr", NewBuild(FALSE)) EXCEPT !.result = "err"])
  ELSE IF b \notin DOMAIN builds
    THEN Outcome(builds, jobs, Call("gone", NewBuild(FALSE)))
  ELSE IF in.fail = "getJob"
    THEN Outcome(builds, jobs,
                 [Call("getJobErr", builds[b]) EXCEPT !.result = "err"])
  ELSE IF JobName(b) \notin DOMAIN jobs THEN RunNoJob(b, in)
  ELSE RunJob(b, in)

\* ---- actions ----
Reconcile(b, in) ==
  LET out == Run(b, in) IN
  /\ builds' = out.builds
  /\ jobs' = out.jobs
  /\ jobsCreated' = [jobsCreated EXCEPT ![b] = @ + out.call.created]
  /\ callbackLog' =
       IF out.call.cb = "none" THEN callbackLog
       ELSE [callbackLog EXCEPT ![b] = Append(@, out.call.cbPhase)]
  /\ deletedBy' =
       IF out.call.del = "ok" THEN [deletedBy EXCEPT ![b] = "reconciler"]
       ELSE deletedBy
  /\ everPhase' =
       IF b \in DOMAIN out.builds
       THEN [everPhase EXCEPT ![b] = @ \cup {out.builds[b].phase}]
       ELSE IF out.call.del = "ok"
       THEN [everPhase EXCEPT ![b] = @ \cup {out.call.phase}]
       ELSE everPhase
  /\ last' = [last EXCEPT ![b] = out.call]
  /\ undisturbed' = [undisturbed EXCEPT ![b] = TRUE]
  /\ UNCHANGED <<now, removals, builder>>

\* the clock advances
Tick ==
  /\ now < MaxTime
  /\ now' = now + 1
  /\ UNCHANGED
       <<builds, jobs, jobsCreated, callbackLog, deletedBy, removals,
         everPhase, last, builder, undisturbed>>

\* the execution substrate: a pod of the job fails
JobPodFailed(b) ==
  /\ JobName(b) \in DOMAIN jobs
  /\ jobs[JobName(b)].succeeded = 0
  /\ jobs[JobName(b)].failed < MaxFailed
  /\ jobs' = [jobs EXCEPT ![JobName(b)].failed = @ + 1]
  /\ undisturbed' = [undisturbed EXCEPT ![b] = FALSE]
  /\ UNCHANGED
       <<builds, now, jobsCreated, callbackLog, deletedBy, removals,
         everPhase, last, builder>>

\* the execution substrate: a pod of the job succeeds; the completion time is
\* reported with the counter or later
JobPodSucceeded(b, withTime) ==
  /\ JobName(b) \in DOMAIN jobs
  /\ jobs[JobName(b)].succeeded = 0
  /\ jobs' = [jobs EXCEPT ![JobName(b)].succeeded = 1,
                          ![JobName(b)].completionTime =
                             IF withTime THEN now ELSE @]
  /\ undisturbed' = [undisturbed EXCEPT ![b] = FALSE]
  /\ UNCHANGED
       <<builds, now, jobsCreated, callbackLog, deletedBy, removals,
         everPhase, last, builder>>

\* the execution substrate reports the completion time of a finished job
JobCompletionReported(b) ==
  /\ JobName(b) \in DOMAIN jobs
  /\ jobs[JobName(b)].succeeded > 0 \/ jobs[JobName(b)].failed > 0
  /\ jobs[JobName(b)].completionTime = NoTime
  /\ jobs' = [jobs EXCEPT ![JobName(b)].completionTime = now]
  /\ undisturbed' = [undisturbed EXCEPT ![b] = FALSE]
  /\ UNCHANGED
       <<builds, now, jobsCreated, callbackLog, deletedBy, removals,
         everPhase, last, builder>>

\* an external actor removes the job record
RemoveJob(b) ==
  /\ JobName(b) \in DOMAIN jobs
  /\ removals[b].active + removals[b].finished < MaxRemovals
  /\ jobs' = Restrict(jobs, DOMAIN jobs \ {JobName(b)})
  /\ removals' =
       IF b \in DOMAIN builds /\ builds[b].phase \in Terminal
       THEN [removals EXCEPT ![b].finished = @ + 1]
       ELSE [removals EXCEPT ![b].active = @ + 1]
  /\ undisturbed' = [undisturbed EXCEPT ![b] = FALSE]
  /\ UNCHANGED
       <<builds, now, jobsCreated, callbackLog, deletedBy, everPhase, last,
         builder>>

\* an external operator deletes the build request
RemoveBuild(b) ==
  /\ b \in DOMAIN builds
  /\ builds' = DeleteBuild(builds, b)
  /\ jobs' = CascadeJobs(jobs, b)
  /\ deletedBy' = [deletedBy EXCEPT ![b] = "external"]
  /\ undisturbed' = [undisturbed EXCEPT ![b] = FALSE]
  /\ UNCHANGED
       <<now, jobsCreated, callbackLog, removals, everPhase, last, builder>>

\* the BuildSpec of the requests of the store: only the required fields set
DefaultSpec ==
  [contextUrl |-> "https://git.example/app.git", revision |-> "",
   dockerfile |-> "", outputImage |-> "registry.example/app:1",
   pushSecret |-> ""]

\* the store after the submitter created the requests of S
Submitted(S) ==
  /\ \E cb \in [S -> BOOLEAN] : builds = [b \in S |-> NewBuild(cb[b])]
  /\ jobs = << >>
  /\ now = 1
  /\ jobsCreated = [b \in Builds |-> 0]
  /\ callbackLog = [b \in Builds |-> << >>]
  /\ deletedBy = [b \in Builds |-> "none"]
  /\ removals = [b \in Builds |-> [active |-> 0, finished |-> 0]]
  /\ everPhase = [b \in Builds |-> IF b \in S THEN {NoPhase} ELSE {}]
  /\ last = [b \in Builds |-> NoCall]
  /\ builder = [spec |-> DefaultSpec, job |-> << >>]
  /\ undisturbed = [b \in Builds |-> FALSE]

\* one request submitted; the other name is never in the store
Init == Submitted({"a"})

\* the steps of the controller and its environment for the requests of S
Step(S) ==
  \/ \E b \in S, in \in Inputs : Reconcile(b, in)
  \/ Tick
  \/ \E b \in S : JobPodFailed(b)
  \/ \E b \in S, withTime \in BOOLEAN : JobPodSucceeded(b, withTime)
  \/ \E b \in S : JobCompletionReported(b)
  \/ \E b \in S : RemoveJob(b)
  \/ \E b \in S : RemoveBuild(b)

Next == Step({"a"})

Spec == Init /\ [][Next]_vars

\* a fault-free invocation: every store operation succeeds
NoFault(resp) == [fail |-> "none", resp |-> resp, persistFails |-> FALSE]

\* Spec with redelivery: a reconcile whose store operations succeed is
\* eventually delivered (errors are requeued with backoff)
FairSpec ==
  Spec /\ WF_vars(\E resp \in Responses : Reconcile("a", NoFault(resp)))

\* the happy path: the endpoint answers 2xx, store operations succeed, nobody
\* removes records, reconciles are delivered and the job eventually succeeds
HappyInputs == {NoFault(resp) : resp \in {200, 299}}

HappyNext ==
  \/ \E in \in HappyInputs : Reconcile("a", in)
  \/ Tick
  \/ JobPodFailed("a")
  \/ \E withTime \in BOOLEAN : JobPodSucceeded("a", withTime)
  \/ JobCompletionReported("a")

HappySpec ==
  /\ Init
  /\ [][HappyNext]_vars
  /\ WF_vars(\E in \in HappyInputs : Reconcile("a", in))
  /\ WF_vars(\E withTime \in BOOLEAN : JobPodSucceeded("a", withTime))

\* the Job Builder on its own: any BuildSpec, constructJob applied once
BuilderInit ==
  /\ builds = << >>
  /\ jobs = << >>
  /\ now = 1
  /\ jobsCreated = [b \in Builds |-> 0]
  /\ callbackLog = [b \in Builds |-> << >>]
  /\ deletedBy = [b \in Builds |-> "none"]
  /\ removals = [b \in Builds |-> [active |-> 0, finished |-> 0]]
  /\ everPhase = [b \in Builds |-> {}]
  /\ last = [b \in Builds |-> NoCall]
  /\ undisturbed = [b \in Builds |-> FALSE]
  /\ \E spec \in BuildSpecs : builder = [spec |-> spec, job |-> << >>]

Construct ==
  /\ builder.job = << >>
  /\ builder' = [builder EXCEPT !.job = <<JobTemplate(builder.spec)>>]
  /\ UNCHANGED <<builds, jobs, now, jobsCreated, callbackLog, deletedBy,
                 removals, everPhase, last, undisturbed>>

BuilderSpec == BuilderInit /\ [][Construct]_vars

\* two requests in one namespace, their reconciles interleaved in any order:
\* the store answers, or refuses the creation of the job; the endpoint
\* answers 200 or is unreachable
PairInputs ==
  {in \in Inputs :
     in.fail \in {"none", "create"} /\ in.resp \in {NetErr, 200}
       /\ ~in.persistFails}

PairNext ==
  \/ \E b \in Builds, in \in PairInputs : Reconcile(b, in)
  \/ \E b \in Builds : JobPodFailed(b)
  \/ \E b \in Builds : JobPodSucceeded(b, TRUE)
  \/ \E b \in Builds : RemoveBuild(b)

PairSpec == Submitted(Builds) /\ [][PairNext]_vars

\* ---- properties ----
\* position of a phase on Pending -> Running -> {Succeeded, Failed}; the unset
\* phase of a new request counts as Pending
Rank(p) ==
  IF p = NoPhase \/ p = BuildPhasePending THEN 0
  ELSE IF p = BuildPhaseRunning THEN 1
  ELSE 2

\* C1: the stored phase of a request never regresses along
\* Pending -> Running -> {Succeeded, Failed}, and a terminal phase never
\* changes into the other terminal phase.
C1_PhaseNeverRegresses ==
  [][\A b \in Builds :
       (b \in DOMAIN builds /\ b \in DOMAIN builds') =>
         /\ Rank(builds'[b].phase) >= Rank(builds[b].phase)
         /\ builds[b].phase \in Terminal => builds'[b].phase = builds[b].phase]_vars

\* C2 (as stated): the Reconciler creates at most one job per request over the
\* request's whole lifetime.
C2_AtMostOneJobEver == \A b \in Builds : jobsCreated[b] <= 1

\* C2 (amended): the number of jobs created for a request is at most one plus
\* the number of external removals of its job made while the phase was not
\* yet Succeeded or Failed.
C2_OneJobPerActiveRemoval ==
  \A b \in Builds : jobsCreated[b] <= 1 + removals[b].active

C2_Witness == jobsCreated["a"] = 2 /\ removals["a"].active = 1

\* C3: an invocation that finds no job while the stored phase is Succeeded or
\* Failed creates no job, writes nothing, dispatches no callback, deletes
\* nothing and returns without error; the store is left as it was.
C3_FinishedNoJobIsNoop ==
  /\ [](\A b \in Builds :
         (last[b].path = "noJob" /\ last[b].phaseBefore \in Terminal) =>
           /\ last[b].created = 0 /\ last[b].writes = 0
           /\ last[b].cb = "none" /\ last[b].del = "none"
           /\ last[b].result = "nil")
  /\ [][\A b \in Builds :
         (/\ last'[b] # last[b]
          /\ last'[b].path = "noJob"
          /\ last'[b].phaseBefore \in Terminal) =>
           /\ builds' = builds /\ jobs' = jobs
           /\ jobsCreated' = jobsCreated /\ callbackLog' = callbackLog]_vars

C3_Witness ==
  /\ last["a"].path = "noJob"
  /\ last["a"].phaseBefore = BuildPhaseFailed
  /\ "a" \in DOMAIN builds
  /\ JobName("a") \notin DOMAIN jobs

\* C4: in every stored state of a request, completionTime is set if and only
\* if the phase is Succeeded or Failed.
C4_CompletionTimeIffTerminal ==
  \A b \in DOMAIN builds :
    (builds[b].completionTime # NoTime) <=> (builds[b].phase \in Terminal)

\* C5: a delete of the request is issued only by an invocation in which the
\* phase is Succeeded, a callback is configured and the dispatch succeeded.
C5_DeleteOnlyAfterNotifiedSuccess ==
  \A b \in Builds :
    last[b].del # "none" =>
      /\ last[b].phase = BuildPhaseSucceeded
      /\ last[b].callback
      /\ last[b].cb = "ok"
      /\ last[b].resp \in 200..299

C5_Witness == last["a"].del = "ok" /\ "a" \notin DOMAIN builds

\* C6: a request stored with phase Succeeded and callbackStatus Success is
\* eventually deleted when reconciles keep being delivered and the store
\* accepts the delete.
C6_NotifiedSuccessEventuallyDeleted ==
  ("a" \in DOMAIN builds
     /\ builds["a"].phase = BuildPhaseSucceeded
     /\ builds["a"].callbackStatus = "Success")
    ~> ("a" \notin DOMAIN builds)

\* C7: the callback of a request is dispatched at most once over the
\* request's lifetime.
C7_CallbackAtMostOnce == \A b \in Builds : Len(callbackLog[b]) <= 1

\* C8: when the dispatch fails (transport error or a status outside 2xx), the
\* invocation returns no error, sets callbackStatus to Failed (stored when the
\* best-effort update succeeds) and does not delete the request.
C8_CallbackFailureRecorded ==
  \A b \in Builds :
    (last[b].cb # "none" /\ last[b].resp \notin 200..299) =>
      /\ last[b].result = "nil"
      /\ last[b].callbackStatus = "Failed"
      /\ last[b].del = "none"
      /\ deletedBy[b] # "reconciler"
      /\ (last[b].writes = 2 /\ b \in DOMAIN builds) =>
            builds[b].callbackStatus = "Failed"

C8_Witness ==
  /\ last["a"].cb # "none"
  /\ last["a"].resp = 199
  /\ last["a"].cbPhase = BuildPhaseSucceeded
  /\ "a" \in DOMAIN builds
  /\ builds["a"].callbackStatus = "Failed"

\* C9: on the happy path a request with a callback configured gets its
\* callback dispatched with phase Succeeded and is eventually deleted by the
\* Reconciler.
C9_HappyPathDeletes ==
  ("a" \in DOMAIN builds /\ builds["a"].callback) =>
    <>(/\ deletedBy["a"] = "reconciler"
       /\ Len(callbackLog["a"]) > 0
       /\ callbackLog["a"][Len(callbackLog["a"])] = BuildPhaseSucceeded)

C9_Witness ==
  /\ deletedBy["a"] = "reconciler"
  /\ callbackLog["a"] = <<BuildPhaseSucceeded>>

\* C10: a request whose stored phase has ever been Failed is never deleted by
\* the Reconciler and keeps phase Failed while it is in the store.
C10_FailedStaysFailed ==
  \A b \in Builds :
    BuildPhaseFailed \in everPhase[b] =>
      /\ deletedBy[b] # "reconciler"
      /\ b \in DOMAIN builds => builds[b].phase = BuildPhaseFailed

\* elements of a command line
Args(cmd) == {cmd[i] : i \in 1..Len(cmd)}

\* C11: the constructed job uses the resolved revision in its fetch stage and
\* the resolved dockerfile path in its build stage ("master" and "Dockerfile"
\* when omitted).
C11_ResolvedFieldsUsed ==
  builder.job # << >> =>
    LET rev == IF builder.spec.revision = "" THEN "master"
               ELSE builder.spec.revision
        df == IF builder.spec.dockerfile = "" THEN "Dockerfile"
              ELSE builder.spec.dockerfile
    IN /\ rev \in Args(builder.job[1].fetch)
       /\ df \in Args(builder.job[1].bud)

\* C12: a callback is dispatched only by an invocation whose update of the
\* terminal phase succeeded; when that update fails the invocation returns the
\* error, dispatches no callback, issues no delete and leaves the store as it
\* was.
C12_CallbackAfterPhasePersisted ==
  /\ [](\A b \in Builds :
         /\ last[b].cb # "none" =>
              /\ last[b].phaseWritten
              /\ last[b].cbPhase \in Terminal
              /\ last[b].cbPhase = last[b].phase
         /\ (/\ last[b].path = "job"
             /\ last[b].phase # last[b].phaseBefore
             /\ ~last[b].phaseWritten) =>
              /\ last[b].result = "err" /\ last[b].writes = 0
              /\ last[b].cb = "none" /\ last[b].del = "none")
  /\ [][\A b \in Builds :
         (/\ last'[b] # last[b]
          /\ last'[b].path = "job"
          /\ last'[b].phase # last'[b].phaseBefore
          /\ ~last'[b].phaseWritten) =>
           /\ builds' = builds /\ jobs' = jobs
           /\ callbackLog' = callbackLog /\ deletedBy' = deletedBy]_vars

C12_Witness ==
  /\ last["a"].path = "job"
  /\ last["a"].phase = BuildPhaseSucceeded
  /\ last["a"].phaseBefore = BuildPhaseRunning
  /\ ~last["a"].phaseWritten
  /\ last["a"].callback
  /\ undisturbed["a"]
  /\ builds["a"].phase = BuildPhaseRunning

\* C13: once a request with a callback is stored with a terminal phase and
\* no callback was dispatched (an invocation stopped between the two), no
\* later invocation dispatches the callback and callbackStatus stays unset
\* while the request exists.
C13_GapNeverRetried ==
  [][\A b \in Builds :
       (/\ b \in DOMAIN builds
        /\ builds[b].callback
        /\ builds[b].phase \in Terminal
        /\ callbackLog[b] = << >>) =>
         /\ callbackLog'[b] = << >>
         /\ b \in DOMAIN builds' => builds'[b].callbackStatus = ""]_vars

\* the record stored under key k, if any
RecordOf(f, k) == IF k \in DOMAIN f THEN <<f[k]>> ELSE << >>

\* a step taken while nobody but the Reconciler touched request b or its job
\* since the previous invocation for b leaves b's part of the store as it
\* was, creates no job, updates no status and dispatches no callback
Redelivered(b) ==
  /\ RecordOf(builds', b) = RecordOf(builds, b)
  /\ RecordOf(jobs', JobName(b)) = RecordOf(jobs, JobName(b))
  /\ jobsCreated'[b] = jobsCreated[b]
  /\ callbackLog'[b] = callbackLog[b]
  /\ last'[b] # last[b] =>
       /\ last'[b].created = 0 /\ last'[b].writes = 0
       /\ last'[b].cb = "none" /\ last'[b].del = "none"

C16_FailedCompletionTime ==
  [][\A b \in Builds :
       (/\ b \in DOMAIN builds /\ b \in DOMAIN builds'
        /\ JobName(b) \in DOMAIN jobs
        /\ builds[b].phase # BuildPhaseFailed
        /\ builds'[b].phase = BuildPhaseFailed) =>
         builds'[b].completionTime =
           IF jobs[JobName(b)].completionTime # NoTime
           THEN jobs[JobName(b)].completionTime
           ELSE now]_vars

\* C17: an invocation for an unfinished request that finds no job and fails
\* to construct or submit one returns the error and leaves the stored status
\* as it was: phase not Running, jobRef not recorded.
C17_CreateFailureLeavesStatus ==
  /\ [](\A b \in Builds :
         (/\ last[b].path = "noJob"
          /\ last[b].phaseBefore \notin Terminal
          /\ last[b].created = 0) =>
           /\ last[b].result = "err" /\ last[b].writes = 0
           /\ last[b].phase = last[b].phaseBefore)
  /\ [][\A b \in Builds :
         (/\ last'[b] # last[b]
          /\ last'[b].path = "noJob"
          /\ last'[b].created = 0) =>
           builds' = builds /\ jobs' = jobs]_vars

C17_Witness ==
  /\ undisturbed["a"]
  /\ last["a"].path = "noJob"
  /\ last["a"].created = 0
  /\ last["a"].result = "err"
  /\ builds["a"].phase = NoPhase
  /\ builds["a"].jobRef = ""
  /\ JobName("a") \notin DOMAIN jobs

\* C18: a job does not stay in existence with the request's jobRef unset:
\* under continued redelivery the request gets its jobRef (and a phase other
\* than Pending).
C18_JobRefEventuallyRecorded ==
  ("a" \in DOMAIN builds
     /\ JobName("a") \in DOMAIN jobs
     /\ builds["a"].jobRef = "")
    ~> ~("a" \in DOMAIN builds
           /\ JobName("a") \in DOMAIN jobs
           /\ builds["a"].jobRef = "")

\* C19: when the update that records callbackStatus fails, the invocation
\* returns no error for that failure (an error can only come from the delete),
\* and with phase Succeeded and a successful callback it still goes on to
\* delete the request: the delete follows the dispatch outcome, not the
\* persisted callbackStatus.
C19_PersistIsBestEffort ==
  \A b \in Builds :
    (last[b].cb # "none" /\ ~last[b].cbPersisted) =>
      /\ last[b].result = "err" <=> last[b].del = "fail"
      /\ last[b].cb = "fail" => (last[b].del = "none" /\ last[b].result = "nil")
      /\ (last[b].cb = "ok" /\ last[b].cbPhase = BuildPhaseSucceeded) =>
           last[b].del # "none"
      /\ (last[b].cb = "ok" /\ last[b].cbPhase # BuildPhaseSucceeded) =>
           last[b].del = "none"

C19_Witness ==
  /\ undisturbed["a"]
  /\ last["a"].cb = "ok"
  /\ last["a"].cbPhase = BuildPhaseSucceeded
  /\ ~last["a"].cbPersisted
  /\ last["a"].del = "ok"
  /\ last["a"].result = "nil"
  /\ "a" \notin DOMAIN builds

\* what the store and the histories hold for request b
Rec(b) ==
  <<RecordOf(builds, b), RecordOf(jobs, JobName(b)), jobsCreated[b],
    callbackLog[b], deletedBy[b], last[b]>>

\* C20: two distinct requests do not interfere: distinct request names give
\* distinct job names, the job found under the job name of a request is owned
\* by that request, and no step changes the record, the job or the history of
\* more than one request.
C20_RequestsDoNotInterfere ==
  /\ [](\A b, c \in Builds : b # c => JobName(b) # JobName(c))
  /\ [](\A b \in Builds :
          JobName(b) \in DOMAIN jobs => jobs[JobName(b)].owner = b)
  /\ [][\A b, c \in Builds :
          (b # c /\ Rec(b)' # Rec(b)) => Rec(c)' = Rec(c)]_vars

C20_Witness ==
  /\ DOMAIN builds = Builds
  /\ builds["a"].jobRef = JobName("a") /\ builds["b"].jobRef = JobName("b")
  /\ builds["a"].phase = BuildPhaseSucceeded
  /\ builds["b"].phase = BuildPhaseFailed
  /\ jobs[JobName("a")].succeeded = 1 /\ jobs[JobName("a")].failed = 0
  /\ jobs[JobName("b")].failed = 1 /\ jobs[JobName("b")].succeeded = 0
  /\ jobsCreated = [b \in Builds |-> 1]

====
